---- MODULE Spec2Model ----
(***************************************************************************)
(* Model of silex-explorer-py: the login / URI-Name table bookkeeping      *)
(* (auth/auth.py, uri_name_manager/uri_name_table.py) and the chunked,     *)
(* thread-pooled data retrieval (experiment/chunk_data_exp.py).            *)
(***************************************************************************)
EXTENDS Bags, FiniteSets, Integers, Sequences, TLC

VARIABLES
    uri_name_table,   \* the module global of uri_name_table.py
    disk,             \* the CSV files init_uri_name reads and writes, by path
    last,             \* the last call made by the user program and how it ended
    logged_in         \* the user program holds a session that login returned

authVars == <<uri_name_table, disk, last, logged_in>>

VARIABLES
    args,             \* arguments of the get_data_by_os_uri_variable call
    env,              \* what the OpenSILEX services answer during the call
    pc,               \* position of the calling thread in get_data_by_os_uri_variable
    experience,       \* local: the experiment identifier list
    ls_var_exp,       \* local: the variables table
    chunks,           \* local: the URI chunks
    future_to_chunk,  \* the futures submitted so far, by chunk index
    posts,            \* number of POSTs fetch_chunk_data has issued, by chunk index
    all_results,      \* local: the merged result list
    all_results_lock, \* holder of the Lock, "free" when not held
    cur,              \* the future the as_completed loop is handling, 0 if none
    collected,        \* the futures as_completed has yielded so far
    ret,              \* how the call ended
    csv_files         \* the per-variable CSV files written under csv_filepath

dataVars == <<args, env, pc, experience, ls_var_exp, chunks, future_to_chunk, posts,
              all_results, all_results_lock, cur, collected, ret, csv_files>>

VARIABLES
    cl                \* a chunk_list call: its arguments and what it yielded

VARIABLES
    rso               \* a replicate_scientific_objects call: df, csv_filepath, result

vars == <<authVars, dataVars, cl, rso>>

(***************************************************************************)
(* Python values                                                           *)
(***************************************************************************)
PyNone == [t |-> "None"]
Str(s) == [t |-> "str", v |-> s]
\* truthiness of a str-or-None argument, as `all([...])` evaluates it
Truthy(x) == x.t = "str" /\ Len(x.v) > 0

SeqsUpTo(S, k) == UNION {[1..m -> S] : m \in 0..k}

RECURSIVE SelectRows(_, _)
\* boolean-mask row selection df[mask]; Keep is the set of rows whose mask is True
SelectRows(rows, Keep) ==
    IF rows = <<>> THEN <<>>
    ELSE IF Head(rows) \in Keep
         THEN <<Head(rows)>> \o SelectRows(Tail(rows), Keep)
         ELSE SelectRows(Tail(rows), Keep)

Range(s) == {s[i] : i \in DOMAIN s}

(***************************************************************************)
(* uri_name_table.py                                                       *)
(***************************************************************************)
URIs == {"u1", "u2"}
Names == {"n1", "n2"}
MaxNew == 2          \* longest new_data handed to insert_into_uri_name

Row(u, n) == [URI |-> u, Name |-> n]
Pairs == {Row(u, n) : u \in URIs, n \in Names}

\* the global is unbound until init_uri_name assigns it: the module has no
\* top-level `uri_name_table = None`
Unbound == [state |-> "unbound"]
DF(rows) == [state |-> "df", rows |-> rows]
IsNone(tbl) == tbl.state = "None"

DefaultCsv == "uri_name.csv"
OtherCsv == "other.csv"
Paths == {DefaultCsv, OtherCsv}
NoFile == [exists |-> FALSE]

\* DataFrame.to_csv(index=False) / pd.read_csv: a missing value is written as
\* the empty field, and the empty field is read back as a missing value
NaNCell == "NaN"
to_csv_cell(v) == IF v = NaNCell THEN "" ELSE v
read_csv_cell(s) == IF s = "" THEN NaNCell ELSE s
to_csv(rows) ==
    [exists |-> TRUE, header |-> <<"URI", "Name">>,
     lines |-> [i \in DOMAIN rows |-> <<to_csv_cell(rows[i].URI), to_csv_cell(rows[i].Name)>>]]
read_csv(file) ==
    [i \in DOMAIN file.lines |-> Row(read_csv_cell(file.lines[i][1]), read_csv_cell(file.lines[i][2]))]

\* an init_uri_name that looks at uri_name.csv before csv_path
init_uri_name_default_first(csv_path, save, d) ==
    LET rows == IF d[DefaultCsv].exists THEN read_csv(d[DefaultCsv])
                ELSE IF csv_path # "" /\ d[csv_path].exists THEN read_csv(d[csv_path])
                ELSE <<>>
        target == IF csv_path = "" THEN DefaultCsv ELSE csv_path
    IN  [table |-> DF(rows),
         disk |-> IF save THEN [d EXCEPT ![target] = to_csv(rows)] ELSE d]

\* init_uri_name: the table it binds and the disk it leaves
init_uri_name_result(csv_path, save, d) ==
    LET rows == IF csv_path # "" /\ d[csv_path].exists THEN read_csv(d[csv_path])
                ELSE IF d[DefaultCsv].exists THEN read_csv(d[DefaultCsv])
                ELSE <<>>
        target == IF csv_path = "" THEN DefaultCsv ELSE csv_path
    IN  [table |-> DF(rows),
         disk |-> IF save THEN [d EXCEPT ![target] = to_csv(rows)] ELSE d]

\* a drop_duplicates that drops nothing
keep_duplicates(rows) == rows

RECURSIVE drop_duplicates(_)
\* DataFrame.drop_duplicates(subset=["URI","Name"], keep='first')
drop_duplicates(rows) ==
    IF rows = <<>> THEN <<>>
    ELSE LET front == drop_duplicates(SubSeq(rows, 1, Len(rows) - 1))
             r == rows[Len(rows)]
         IN  IF r \in Range(front) THEN front ELSE Append(front, r)

\* the warnings check_uri_name_consistency emits for a table
consistency_warnings(rows) ==
    {[kind |-> "uri", key |-> u] : u \in {r.URI : r \in {x \in Range(rows) :
          Cardinality({y.Name : y \in {z \in Range(rows) : z.URI = x.URI}}) > 1}}}
    \cup
    {[kind |-> "name", key |-> n] : n \in {r.Name : r \in {x \in Range(rows) :
          Cardinality({y.URI : y \in {z \in Range(rows) : z.Name = x.Name}}) > 1}}}

\* a DataFrame argument: its columns and rows; anything else is not a DataFrame
IsDataFrame(x) == "cols" \in DOMAIN x
NewDataValues ==
    {[cols |-> {"URI", "Name"}, rows |-> s] : s \in SeqsUpTo(Pairs, MaxNew)}
    \cup {[cols |-> {"URI", "Name", "unit_name"},
           rows |-> <<[URI |-> u, Name |-> n, unit_name |-> "cm"]>>] : u \in URIs, n \in Names}
    \cup {[cols |-> {"URI"}, rows |-> <<[URI |-> u]>>] : u \in URIs}
    \cup {[cols |-> {"Name"}, rows |-> <<[Name |-> n]>>] : n \in Names}
    \cup {[notdf |-> TRUE]}

\* new_data[["URI", "Name"]] names a pair twice, or a pair the table holds
RepeatsPairs(tbl, new_data) ==
    /\ tbl.state = "df"
    /\ IsDataFrame(new_data)
    /\ {"URI", "Name"} \subseteq new_data.cols
    /\ LET nd == [i \in DOMAIN new_data.rows |->
                      Row(new_data.rows[i].URI, new_data.rows[i].Name)]
       IN  \/ \E i, j \in DOMAIN nd : i # j /\ nd[i] = nd[j]
           \/ \E i \in DOMAIN nd : nd[i] \in Range(tbl.rows)

\* insert_into_uri_name: outcome and the table it leaves
insert_result(tbl, new_data) ==
    IF tbl = Unbound THEN [out |-> "NameError", table |-> tbl]
    ELSE IF IsNone(tbl) THEN [out |-> "ValueError", table |-> tbl]
    ELSE IF ~IsDataFrame(new_data) \/ ~({"URI", "Name"} \subseteq new_data.cols)
         THEN [out |-> "ValueError", table |-> tbl]
    ELSE LET nd == [i \in DOMAIN new_data.rows |->
                       Row(new_data.rows[i].URI, new_data.rows[i].Name)]
             combined_data == drop_duplicates(tbl.rows \o nd)
             unique_entries == SelectRows(combined_data,
                                          Range(combined_data) \ Range(tbl.rows))
         IN  [out |-> "return", table |-> DF(tbl.rows \o unique_entries)]

\* getURIbyName without the len(uris) > 1 test of lines 127-128: the first match
\* is returned
URIbyName_skipcount(tbl, name) ==
    IF tbl = Unbound THEN [out |-> "NameError", msg |-> "not defined"]
    ELSE IF IsNone(tbl) THEN [out |-> "ValueError", msg |-> "not initialized"]
    ELSE IF name = "" THEN [out |-> "ValueError", msg |-> "empty name"]
    ELSE LET uris == SelectRows(tbl.rows, {r \in Range(tbl.rows) : r.Name = name})
         IN  IF Len(uris) = 0 THEN [out |-> "ValueError", msg |-> "no URI"]
             ELSE [out |-> "return", uri |-> uris[1].URI]

\* getURIbyName: outcome and value
URIbyName(tbl, name) ==
    IF tbl = Unbound THEN [out |-> "NameError", msg |-> "not defined"]
    ELSE IF IsNone(tbl) THEN [out |-> "ValueError", msg |-> "not initialized"]
    ELSE IF name = "" THEN [out |-> "ValueError", msg |-> "empty name"]
    ELSE LET uris == SelectRows(tbl.rows, {r \in Range(tbl.rows) : r.Name = name})
         IN  IF Len(uris) = 0 THEN [out |-> "ValueError", msg |-> "no URI"]
             ELSE IF Len(uris) > 1 THEN [out |-> "ValueError", msg |-> "multiple URIs"]
             ELSE [out |-> "return", uri |-> uris[1].URI]

\* getNamesByURI: outcome, names returned and whether it warned
NamesByURI(tbl, uri) ==
    IF tbl = Unbound THEN [out |-> "NameError", msg |-> "not defined"]
    ELSE IF IsNone(tbl) THEN [out |-> "ValueError", msg |-> "not initialized"]
    ELSE IF uri = "" THEN [out |-> "return", names |-> <<>>, warned |-> TRUE]
    ELSE LET rs == SelectRows(tbl.rows, {r \in Range(tbl.rows) : r.URI = uri})
             names == [i \in DOMAIN rs |-> rs[i].Name]
         IN  [out |-> "return", names |-> names, warned |-> Len(names) # 1]

(***************************************************************************)
(* auth.py                                                                 *)
(***************************************************************************)
RECURSIVE rstrip(_, _)
\* str.rstrip(ch) on a string held as its sequence of characters
rstrip(s, ch) ==
    IF s # <<>> /\ s[Len(s)] = ch THEN rstrip(SubSeq(s, 1, Len(s) - 1), ch) ELSE s

auth_route == <<"/", "security", "/", "authenticate">>

Tokens == {"t1", "t2"}
TextArgs == {PyNone, Str(<<>>), Str(<<"a">>)}
UrlArgs == {PyNone, Str(<<>>), Str(<<"h">>), Str(<<"h", "/", "/">>)}

\* what requests.post(auth_url, ...) can do: answer with a status and the JSON
\* body of the OpenSILEX security service, or raise a RequestException
AuthResponses ==
    {[kind |-> "http", status |-> s, json |-> [result |-> [token |-> t]]] :
        s \in {200, 299}, t \in Tokens}
    \cup {[kind |-> "http", status |-> s, json |-> [result |-> [message |-> "Invalid credentials"]]] :
        s \in {199, 300, 401}}
    \cup {[kind |-> "http", status |-> 500, json |-> [metadata |-> "none"]]}
    \cup {[kind |-> "RequestException"]}

Bearer(token) == <<"Bearer", token>>

NoCall == [op |-> "none", out |-> "none"]

\* login without the init_uri_name call of line 85
login_init_table_skipped(d, tbl) == [table |-> tbl, disk |-> d]

\* login line 85: the table is initialised on the 2xx path
login_init_table(d, tbl) == init_uri_name_result("", TRUE, d)

\* login with init_uri_name(save=True) called before the status is looked at
login_failure_inits_table(d, tbl) == init_uri_name_result("", TRUE, d)

\* login lines 95-103: the failure paths leave the table and the files alone
login_failure_effect(d, tbl) == [table |-> tbl, disk |-> d]

\* login line 70
IsSuccess(status_code) == 200 <= status_code /\ status_code < 300

\* login lines 102-103 as written: the RequestException is caught and an
\* AuthenticationError is raised in its place
login_on_request_exception == "AuthenticationError"

\* an argument that is None or the empty string
EmptyOrNone(x) == x = PyNone \/ x = Str(<<>>)

\* a validation that forgets the username
ArgsValid_ignores_username(username, password, instance_rest, url_graphql) ==
    Truthy(password) /\ Truthy(instance_rest) /\ Truthy(url_graphql)

\* login line 51: all([username, password, instance_rest, url_graphql])
ArgsValid(username, password, instance_rest, url_graphql) ==
    Truthy(username) /\ Truthy(password) /\ Truthy(instance_rest) /\ Truthy(url_graphql)

\* login: outcome, value, the POST it sent, and the table and disk it leaves
login_result(username, password, instance_rest, url_graphql, resp, d, tbl) ==
    IF ~ArgsValid(username, password, instance_rest, url_graphql)
    THEN [out |-> "ValueError", posted |-> FALSE, table |-> tbl, disk |-> d]
    ELSE
    LET url_rest == rstrip(instance_rest.v, "/")
        url_gql == rstrip(url_graphql.v, "/")
        auth_url == url_rest \o auth_route
    IN  IF resp.kind = "RequestException"
        THEN LET fail == login_failure_effect(d, tbl)
             IN  [out |-> login_on_request_exception, posted |-> TRUE, url |-> auth_url,
                  answered |-> FALSE, table |-> fail.table, disk |-> fail.disk]
        ELSE IF IsSuccess(resp.status)
        THEN LET token == resp.json.result.token
                 init == login_init_table(d, tbl)
             IN  [out |-> "return", posted |-> TRUE, url |-> auth_url,
                  answered |-> TRUE, status |-> resp.status,
                  session |-> [token |-> token,
                               url_rest |-> url_rest,
                               url_graphql |-> url_gql,
                               headers_graphql |-> [Authorization |-> Bearer(token),
                                                    ContentType |-> "application/json"],
                               headers_rest |-> [Authorization |-> Bearer(token)]],
                  table |-> init.table, disk |-> init.disk]
        ELSE LET result == IF "result" \in DOMAIN resp.json THEN resp.json.result
                           ELSE [none |-> TRUE]
                 error_message == IF "message" \in DOMAIN result THEN result.message
                                  ELSE "Unknown authentication error."
                 fail == login_failure_effect(d, tbl)
             IN  [out |-> "AuthenticationError", posted |-> TRUE, url |-> auth_url,
                  answered |-> TRUE, status |-> resp.status, message |-> error_message,
                  table |-> fail.table, disk |-> fail.disk]

(***************************************************************************)
(* chunk_data_exp.py                                                       *)
(***************************************************************************)
max_ids_per_request == 40
max_workers == 5
NaN == 0              \* a missing value of the URI column of df_os

Min(a, b) == IF a < b THEN a ELSE b

RECURSIVE chunk_list_from(_, _, _)
\* the generator's loop from index i (0-based): for i in range(i, len, chunk_size)
chunk_list_from(data_list, chunk_size, i) ==
    IF i >= Len(data_list) THEN <<>>
    ELSE <<SubSeq(data_list, i + 1, Min(i + chunk_size, Len(data_list)))>>
         \o chunk_list_from(data_list, chunk_size, i + chunk_size)

RECURSIVE chunk_list_short_from(_, _, _)
\* the loop with the slice taken as data_list[i:i + chunk_size - 1]
chunk_list_short_from(data_list, chunk_size, i) ==
    IF i >= Len(data_list) THEN <<>>
    ELSE <<SubSeq(data_list, i + 1, Min(i + chunk_size - 1, Len(data_list)))>>
         \o chunk_list_short_from(data_list, chunk_size, i + chunk_size)

chunk_list_short(data_list, chunk_size) == chunk_list_short_from(data_list, chunk_size, 0)

\* list(chunk_list(data_list, chunk_size)), chunk_size >= 1
chunk_list(data_list, chunk_size) == chunk_list_from(data_list, chunk_size, 0)

\* Series.dropna().tolist()
dropna(col) == SelectSeq(col, LAMBDA x : x # NaN)

\* all_results = data in place of all_results.extend(data)
extend_overwrites(list, data) == data

\* list.extend
extend(list, data) == list \o data

Item(t, v) == [target |-> t, variable |-> v, value |-> 1, date |-> "2024-01-01"]

V1 == <<"ns", "v1">>
V2 == <<"ns", "v2">>
V3 == <<"ns", "v3">>
NaNVar == <<"NaN">>
\* variable.split('/')[-1]
ShortName(variable) == variable[Len(variable)]

\* the answers the GraphQL endpoint can give to the POST of one chunk whose
\* first URI is t
ResponseKinds == {"RequestException", "http500", "empty", "one", "two", "unlisted"}
ChunkResponse(kind, t) ==
    CASE kind = "RequestException" -> [kind |-> "RequestException"]
      [] kind = "http500" -> [kind |-> "http", status_code |-> 500]
      [] kind = "empty" -> [kind |-> "http", status_code |-> 200, objs |-> <<>>]
      [] kind = "one" -> [kind |-> "http", status_code |-> 200,
                          objs |-> <<[data |-> <<Item(t, V1)>>]>>]
      [] kind = "two" -> [kind |-> "http", status_code |-> 200,
                          objs |-> <<[uri |-> t], [data |-> <<Item(t, V2)>>],
                                     [data |-> <<Item(t, V1)>>]>>]
      [] kind = "unlisted" -> [kind |-> "http", status_code |-> 200,
                               objs |-> <<[data |-> <<Item(t, V3)>>]>>]

RECURSIVE collect_data(_)
\* fetch_chunk_data lines 47-49: the data lists of the objects that carry one
collect_data(objs) ==
    IF objs = <<>> THEN <<>>
    ELSE (IF "data" \in DOMAIN Head(objs) THEN Head(objs).data ELSE <<>>)
         \o collect_data(Tail(objs))

\* fetch_chunk_data from the response on: the list returned or the exception raised
fetch_chunk_data_result(response) ==
    IF response.kind = "RequestException"
    THEN [state |-> "done", exc |-> "ConnectionError", data |-> <<>>]
    ELSE IF response.status_code = 200
    THEN [state |-> "done", exc |-> "none", data |-> collect_data(response.objs)]
    ELSE [state |-> "done", exc |-> "APIRequestError", data |-> <<>>]

Pending == [state |-> "pending", exc |-> "none", data |-> <<>>]
Running == [state |-> "running", exc |-> "none", data |-> <<>>]

EmptyDict == [k \in {} |-> <<>>]

\* a variables table: rows of URI and Name
VarDF(rows) == [cols |-> {"URI", "Name"}, rows |-> rows]
IsEmptyDF(df) == df = PyNone \/ df.rows = <<>>

RECURSIVE first_seen(_)
\* the keys of variable_data in insertion order
first_seen(vs) ==
    IF vs = <<>> THEN <<>>
    ELSE LET front == first_seen(SubSeq(vs, 1, Len(vs) - 1))
         IN  IF vs[Len(vs)] \in Range(front) THEN front ELSE Append(front, vs[Len(vs)])

\* export_data_by_variable_to_csv: what it returns and the files it writes
export_data_by_variable_to_csv(var_exp, data, csv_filepath) ==
    IF IsEmptyDF(var_exp) THEN [value |-> [kind |-> "None"], files |-> {}]
    ELSE IF data = <<>> THEN [value |-> [kind |-> "None"], files |-> {}]
    ELSE
    LET listed == {i \in DOMAIN var_exp.rows : var_exp.rows[i].URI # NaNVar}
        variables == {var_exp.rows[i].URI : i \in listed}
        kept == SelectSeq(data, LAMBDA item : variables = {} \/ item.variable \in variables)
        keys == first_seen([i \in DOMAIN kept |-> kept[i].variable])
        measurements(v) ==
            LET mine == SelectSeq(kept, LAMBDA item : item.variable = v)
            IN  [i \in DOMAIN mine |-> <<mine[i].target, mine[i].value, mine[i].date>>]
        \* uri_to_name.get(variable, variable.split('/')[-1]); a later row wins
        variable_name(v) ==
            LET rows == {i \in DOMAIN var_exp.rows : var_exp.rows[i].URI = v}
            IN  IF rows = {} THEN ShortName(v)
                ELSE var_exp.rows[CHOOSE i \in rows : \A j \in rows : j <= i].Name
        names == {variable_name(keys[i]) : i \in DOMAIN keys}
        \* a later variable of the same name replaces the frame of an earlier one
        frame(n) ==
            LET last_i == CHOOSE i \in DOMAIN keys :
                              /\ variable_name(keys[i]) = n
                              /\ \A j \in DOMAIN keys : variable_name(keys[j]) = n => j <= i
            IN  [columns |-> <<"URI", n, "Date">>, rows |-> measurements(keys[last_i])]
    IN  IF kept = <<>> THEN [value |-> [kind |-> "None"], files |-> {}]
        ELSE [value |-> [kind |-> "dict",
                         frames |-> [k \in {"df_" \o n : n \in names} |->
                                        frame(CHOOSE n \in names : "df_" \o n = k)]],
              files |-> IF csv_filepath = "" THEN {}
                        ELSE {[path |-> <<csv_filepath, n \o "_data.csv">>,
                               content |-> frame(n)] : n \in names}]

(***************************************************************************)
(* The user program: calls in any order                                    *)
(***************************************************************************)
Without(rec, keys) == [k \in (DOMAIN rec) \ keys |-> rec[k]]

login ==
    \E username \in TextArgs, password \in TextArgs,
       instance_rest \in UrlArgs, url_graphql \in UrlArgs :
      \E resp \in IF ArgsValid(username, password, instance_rest, url_graphql)
                  THEN AuthResponses ELSE {[kind |-> "unsent"]} :
        LET r == login_result(username, password, instance_rest, url_graphql,
                              resp, disk, uri_name_table)
        IN  /\ uri_name_table' = r.table
            /\ disk' = r.disk
            /\ last' = [op |-> "login",
                        empty_arg |-> \E x \in {username, password, instance_rest,
                                                url_graphql} : EmptyOrNone(x)]
                         @@ Without(r, {"table", "disk"})
            /\ logged_in' = (logged_in \/ r.out = "return")
            /\ UNCHANGED <<dataVars, cl, rso>>

init_uri_name ==
    \E csv_path \in {"", OtherCsv}, save \in BOOLEAN :
        LET r == init_uri_name_result(csv_path, save, disk)
        IN  /\ uri_name_table' = r.table
            /\ disk' = r.disk
            /\ last' = [op |-> "init_uri_name", out |-> "return",
                        csv_path |-> csv_path, save |-> save]
            /\ UNCHANGED <<logged_in, dataVars, cl, rso>>

insert_into_uri_name ==
    \E new_data \in NewDataValues :
        LET r == insert_result(uri_name_table, new_data)
        IN  /\ uri_name_table' = r.table
            /\ last' = [op |-> "insert_into_uri_name", out |-> r.out,
                        valid |-> (IsDataFrame(new_data)
                                     /\ {"URI", "Name"} \subseteq new_data.cols),
                        repeats |-> RepeatsPairs(uri_name_table, new_data),
                        warnings |-> IF r.out = "return"
                                     THEN consistency_warnings(r.table.rows) ELSE {}]
            /\ UNCHANGED <<disk, logged_in, dataVars, cl, rso>>

check_uri_name_consistency ==
    /\ last' = IF uri_name_table = Unbound
               THEN [op |-> "check_uri_name_consistency", out |-> "NameError"]
               ELSE IF IsNone(uri_name_table)
               THEN [op |-> "check_uri_name_consistency", out |-> "ValueError"]
               ELSE [op |-> "check_uri_name_consistency", out |-> "return",
                     warnings |-> consistency_warnings(uri_name_table.rows)]
    /\ UNCHANGED <<uri_name_table, disk, logged_in, dataVars, cl, rso>>

getURIbyName ==
    \E name \in Names \cup {""} :
        /\ last' = [op |-> "getURIbyName", name |-> name] @@ URIbyName(uri_name_table, name)
        /\ UNCHANGED <<uri_name_table, disk, logged_in, dataVars, cl, rso>>

getNamesByURI ==
    \E uri \in URIs \cup {""} :
        /\ last' = [op |-> "getNamesByURI", uri |-> uri] @@ NamesByURI(uri_name_table, uri)
        /\ UNCHANGED <<uri_name_table, disk, logged_in, dataVars, cl, rso>>

\* files found on disk at start: none, or files an earlier run's to_csv wrote
InitFiles ==
    {NoFile, to_csv(<<>>), to_csv(<<Row("u1", "n1")>>),
     to_csv(<<Row("u1", "n1"), Row("u2", "n1")>>),
     to_csv(<<Row("u1", "n1"), Row("u1", "n1")>>)}

\* no get_data_by_os_uri_variable call is under way
DataIdle ==
    /\ args = PyNone
    /\ env = PyNone
    /\ pc = "idle"
    /\ experience = <<>>
    /\ ls_var_exp = PyNone
    /\ chunks = <<>>
    /\ future_to_chunk = <<>>
    /\ posts = <<>>
    /\ all_results = <<>>
    /\ all_results_lock = "free"
    /\ cur = 0
    /\ collected = {}
    /\ ret = [kind |-> "running"]
    /\ csv_files = {}

ChunkIdle == cl = PyNone
ReplIdle == rso = PyNone

Init ==
    /\ DataIdle
    /\ ChunkIdle
    /\ ReplIdle
    /\ uri_name_table = Unbound
    /\ \E f \in InitFiles, g \in {NoFile, to_csv(<<Row("u2", "n2")>>)} :
          disk = [p \in Paths |-> IF p = DefaultCsv THEN f ELSE g]
    /\ last = NoCall
    /\ logged_in = FALSE

Next ==
    \/ login
    \/ init_uri_name
    \/ insert_into_uri_name
    \/ check_uri_name_consistency
    \/ getURIbyName
    \/ getNamesByURI

Spec == Init /\ [][Next]_vars

(***************************************************************************)
(* get_data_by_os_uri_variable: the calling thread and the pool's workers  *)
(***************************************************************************)
\* get_experiment_id: the identifier returned, or how the call ends
get_experiment_id_result(tbl, experiment_name, service) ==
    LET lookup == URIbyName(tbl, experiment_name)
    IN  IF lookup.out = "NameError" THEN [out |-> "raise", exc |-> "NameError"]
        ELSE IF lookup.out = "ValueError" THEN [out |-> "exit"]
        ELSE CASE service = "RequestException" -> [out |-> "exit"]
               [] service = "errors" -> [out |-> "raise", exc |-> "Exception"]
               [] service = "none" -> [out |-> "exit"]
               [] service = "found" -> [out |-> "return", value |-> "EXP_label_date"]

\* get_ls_var_by_exp: the variables table returned, or how the call ends
get_ls_var_by_exp_result(tbl, experiment_name, service) ==
    LET lookup == URIbyName(tbl, experiment_name)
    IN  IF lookup.out = "NameError" THEN [out |-> "raise", exc |-> "NameError"]
        ELSE IF lookup.out = "ValueError" THEN [out |-> "exit"]
        ELSE IF service = PyNone THEN [out |-> "raise", exc |-> "APIRequestError"]
        ELSE [out |-> "return", value |-> service]

\* lines 102-107
GetExperimentId ==
    /\ pc = "get_experiment_id"
    /\ LET r == get_experiment_id_result(uri_name_table, args.experiment_name, env.exp_service)
       IN  IF r.out = "return"
           THEN /\ experience' = <<r.value>>
                /\ pc' = "get_variables"
                /\ UNCHANGED ret
           ELSE /\ pc' = "done"
                /\ ret' = [kind |-> r.out] @@ Without(r, {"out"})
                /\ UNCHANGED experience
    /\ UNCHANGED <<args, env, ls_var_exp, chunks, future_to_chunk, posts, all_results,
                   all_results_lock, cur, collected, csv_files, authVars, cl, rso>>

\* lines 109-115
GetVariables ==
    /\ pc = "get_variables"
    /\ IF IsEmptyDF(args.ls_var_exp)
       THEN LET r == get_ls_var_by_exp_result(uri_name_table, args.experiment_name,
                                              env.var_service)
            IN  IF r.out = "return"
                THEN ls_var_exp' = r.value /\ pc' = "validate" /\ UNCHANGED ret
                ELSE /\ pc' = "done"
                     /\ ret' = [kind |-> r.out] @@ Without(r, {"out"})
                     /\ UNCHANGED ls_var_exp
       ELSE ls_var_exp' = args.ls_var_exp /\ pc' = "validate" /\ UNCHANGED ret
    /\ UNCHANGED <<args, env, experience, chunks, future_to_chunk, posts, all_results,
                   all_results_lock, cur, collected, csv_files, authVars, cl, rso>>

\* df_os.empty or a missing URI column
BadFrame(df) == df = PyNone \/ df.n = 0 \/ df.cols = {} \/ "URI" \notin df.cols

\* lines 117-130
Validate ==
    /\ pc = "validate"
    /\ IF BadFrame(args.df_os)
       THEN /\ ret' = [kind |-> "dict", frames |-> EmptyDict]
            /\ pc' = "done"
            /\ UNCHANGED <<chunks, posts>>
       ELSE LET ls_os_uris == dropna(args.df_os.URI)
            IN  IF ls_os_uris = <<>>
                THEN /\ ret' = [kind |-> "dict", frames |-> EmptyDict]
                     /\ pc' = "done"
                     /\ UNCHANGED <<chunks, posts>>
                ELSE /\ chunks' = chunk_list(ls_os_uris, max_ids_per_request)
                     /\ posts' = [c \in DOMAIN chunks' |-> 0]
                     /\ pc' = "submit"
                     /\ UNCHANGED ret
    /\ UNCHANGED <<args, env, experience, ls_var_exp, future_to_chunk, all_results,
                   all_results_lock, cur, collected, csv_files, authVars, cl, rso>>

\* lines 134-139: executor.submit for the next chunk
Submit ==
    /\ pc = "submit"
    /\ future_to_chunk' = Append(future_to_chunk, Pending)
    /\ pc' = IF Len(future_to_chunk') = Len(chunks) THEN "collect" ELSE "submit"
    /\ UNCHANGED <<args, env, experience, ls_var_exp, chunks, posts, all_results,
                   all_results_lock, cur, collected, ret, csv_files, authVars, cl, rso>>

InFlight == {c \in DOMAIN future_to_chunk : future_to_chunk[c].state = "running"}

\* an executor that starts a thread for every work item
no_worker_limit(busy) == TRUE

\* ThreadPoolExecutor(max_workers=5): a worker thread is free to take a work item
WorkerAvailable(busy) == busy < max_workers

\* a worker takes the oldest queued work item and fetch_chunk_data sends its POST
StartFetch(c) ==
    /\ future_to_chunk[c].state = "pending"
    /\ \A j \in 1..(c - 1) : future_to_chunk[j].state # "pending"
    /\ WorkerAvailable(Cardinality(InFlight))
    /\ future_to_chunk' = [future_to_chunk EXCEPT ![c] = Running]
    /\ posts' = [posts EXCEPT ![c] = @ + 1]
    /\ UNCHANGED <<args, env, pc, experience, ls_var_exp, chunks, all_results,
                   all_results_lock, cur, collected, ret, csv_files, authVars, cl, rso>>

\* a worker that appends its items to the shared list itself, without the lock
FinishFetch_writes_shared(c) ==
    /\ future_to_chunk[c].state = "running"
    /\ LET result == fetch_chunk_data_result(ChunkResponse(env.server[c], chunks[c][1]))
       IN  /\ future_to_chunk' = [future_to_chunk EXCEPT ![c] = result]
           /\ all_results' = extend(all_results, result.data)
    /\ UNCHANGED <<args, env, pc, experience, ls_var_exp, chunks, posts,
                   all_results_lock, cur, collected, ret, csv_files, authVars, cl, rso>>

\* the POST of chunk c is answered and fetch_chunk_data returns or raises
FinishFetch(c) ==
    /\ future_to_chunk[c].state = "running"
    /\ future_to_chunk' = [future_to_chunk EXCEPT ![c] =
            fetch_chunk_data_result(ChunkResponse(env.server[c], chunks[c][1]))]
    /\ UNCHANGED <<args, env, pc, experience, ls_var_exp, chunks, posts, all_results,
                   all_results_lock, cur, collected, ret, csv_files, authVars, cl, rso>>

\* a handler that resubmits the failed chunk: its future is queued again
resubmit_on_exception(futures, c) == [futures EXCEPT ![c] = Pending]

\* lines 150-152: the exception of a chunk is printed and nothing else happens
futures_after_exception(futures, c) == futures

\* lines 141-145 and 150-152: as_completed yields a finished future
AsCompleted(c) ==
    /\ pc = "collect"
    /\ c \notin collected
    /\ future_to_chunk[c].state = "done"
    /\ collected' = collected \cup {c}
    /\ IF future_to_chunk[c].exc # "none"
       THEN /\ future_to_chunk' = futures_after_exception(future_to_chunk, c)
            /\ UNCHANGED <<pc, cur>>
       ELSE /\ cur' = c
            /\ pc' = "acquire"
            /\ UNCHANGED future_to_chunk
    /\ UNCHANGED <<args, env, experience, ls_var_exp, chunks, posts, all_results,
                   all_results_lock, ret, csv_files, authVars, cl, rso>>

\* line 146: with all_results_lock
Acquire ==
    /\ pc = "acquire"
    /\ all_results_lock = "free"
    /\ all_results_lock' = "main"
    /\ pc' = "extend"
    /\ UNCHANGED <<args, env, experience, ls_var_exp, chunks, future_to_chunk, posts,
                   all_results, cur, collected, ret, csv_files, authVars, cl, rso>>

\* line 147
Extend ==
    /\ pc = "extend"
    /\ all_results' = extend(all_results, future_to_chunk[cur].data)
    /\ pc' = "release"
    /\ UNCHANGED <<args, env, experience, ls_var_exp, chunks, future_to_chunk, posts,
                   all_results_lock, cur, collected, ret, csv_files, authVars, cl, rso>>

\* leaving the with block of line 146
Release ==
    /\ pc = "release"
    /\ all_results_lock' = "free"
    /\ cur' = 0
    /\ pc' = "collect"
    /\ UNCHANGED <<args, env, experience, ls_var_exp, chunks, future_to_chunk, posts,
                   all_results, collected, ret, csv_files, authVars, cl, rso>>

\* as_completed is exhausted and the executor's with block is left
ExitPool ==
    /\ pc = "collect"
    /\ collected = DOMAIN future_to_chunk
    /\ \A c \in DOMAIN future_to_chunk : future_to_chunk[c].state = "done"
    /\ pc' = "finish"
    /\ UNCHANGED <<args, env, experience, ls_var_exp, chunks, future_to_chunk, posts,
                   all_results, all_results_lock, cur, collected, ret, csv_files,
                   authVars, cl, rso>>

\* lines 154-170
Finish ==
    /\ pc = "finish"
    /\ IF all_results = <<>>
       THEN /\ ret' = [kind |-> "dict", frames |-> EmptyDict]
            /\ UNCHANGED csv_files
       ELSE LET dataFrames == export_data_by_variable_to_csv(ls_var_exp, all_results,
                                                             args.csv_filepath)
            IN  /\ ret' = dataFrames.value
                /\ csv_files' = dataFrames.files
    /\ pc' = "done"
    /\ UNCHANGED <<args, env, experience, ls_var_exp, chunks, future_to_chunk, posts,
                   all_results, all_results_lock, cur, collected, authVars, cl, rso>>

NextData ==
    \/ GetExperimentId
    \/ GetVariables
    \/ Validate
    \/ Submit
    \/ \E c \in DOMAIN future_to_chunk : StartFetch(c)
    \/ \E c \in DOMAIN future_to_chunk : FinishFetch(c)
    \/ \E c \in DOMAIN future_to_chunk : AsCompleted(c)
    \/ Acquire
    \/ Extend
    \/ Release
    \/ ExitPool
    \/ Finish

MaxRows == 81         \* most rows of a df_os handed to the call

VT1 == VarDF(<<Row(V1, "height")>>)
VT2 == VarDF(<<Row(V1, "height"), Row(V2, "width")>>)
VT3 == VarDF(<<Row(NaNVar, "unnamed")>>)

\* row counts at and around the multiples of the chunk size
RowCounts == {n \in 0..MaxRows : n % max_ids_per_request \in {0, 1, max_ids_per_request - 1}}
\* a df_os of n rows: row i is scientific object i; the first URI may be missing
Frame(n, first_missing) ==
    [cols |-> {"URI", "Name"}, n |-> n,
     URI |-> [i \in 1..n |-> IF i = 1 /\ first_missing THEN NaN ELSE i]]
FrameInputs ==
    {PyNone, [cols |-> {"Name"}, n |-> 1]}
    \cup {Frame(n, FALSE) : n \in RowCounts}
    \cup {Frame(n, TRUE) : n \in RowCounts \ {0}}

\* number of chunks the URI column of df gives
NumChunks(df) ==
    IF BadFrame(df) THEN 0
    ELSE (Len(dropna(df.URI)) + max_ids_per_request - 1) \div max_ids_per_request

\* the calls whose experiment lookup and variables retrieval go through
GoodPrelude(tbl, a, e) ==
    /\ get_experiment_id_result(tbl, a.experiment_name, e.exp_service).out = "return"
    /\ IsEmptyDF(a.ls_var_exp)
          => get_ls_var_by_exp_result(tbl, a.experiment_name, e.var_service).out = "return"

DataStart ==
    /\ pc = "get_experiment_id"
    /\ experience = <<>>
    /\ ls_var_exp = PyNone
    /\ chunks = <<>>
    /\ future_to_chunk = <<>>
    /\ posts = <<>>
    /\ all_results = <<>>
    /\ all_results_lock = "free"
    /\ cur = 0
    /\ collected = {}
    /\ ret = [kind |-> "running"]
    /\ csv_files = {}
    /\ disk = [p \in Paths |-> NoFile]
    /\ last = NoCall
    /\ logged_in = FALSE
    /\ ChunkIdle
    /\ ReplIdle

InitData ==
    /\ DataStart
    /\ uri_name_table \in {Unbound, DF(<<>>), DF(<<Row("u1", "n1")>>),
                            DF(<<Row("u1", "n1"), Row("u2", "n1")>>)}
    /\ \E df \in FrameInputs, lv \in {PyNone, VarDF(<<>>), VT1, VT2, VT3},
          path \in {"", "out"} :
          args = [experiment_name |-> "n1", df_os |-> df, ls_var_exp |-> lv,
                  csv_filepath |-> path]
    /\ \E es \in {"found", "none", "errors", "RequestException"},
          vs \in {PyNone, VarDF(<<>>), VT2},
          sv \in [1..NumChunks(args.df_os) -> ResponseKinds] :
          env = [exp_service |-> es, var_service |-> vs, server |-> sv]
    \* the variables service is asked only when no table is handed in, and the
    \* rest of the call is reached only when the lookups go through
    /\ ~IsEmptyDF(args.ls_var_exp) => env.var_service = VT2
    /\ ~GoodPrelude(uri_name_table, args, env)
          => args.df_os = PyNone /\ args.csv_filepath = ""

SpecData == InitData /\ [][NextData]_vars

PoolRows == 241       \* rows of the df_os of the pool-saturating call

\* a call with more chunks than workers, every chunk answered alike
InitPool ==
    /\ DataStart
    /\ uri_name_table = DF(<<Row("u1", "n1")>>)
    /\ args = [experiment_name |-> "n1", df_os |-> Frame(PoolRows, FALSE),
               ls_var_exp |-> VT1, csv_filepath |-> ""]
    /\ \E k \in {"empty", "one", "http500", "RequestException"} :
          env = [exp_service |-> "found", var_service |-> VT2,
                 server |-> [c \in 1..NumChunks(args.df_os) |-> k]]

SpecPool == InitPool /\ [][NextData]_vars

(***************************************************************************)
(* chunk_list on its own: arguments drawn, then the generator run to its   *)
(* end as list(chunk_list(...)) does                                       *)
(***************************************************************************)
MaxListLen == 4       \* longest list of arbitrary elements
MaxChunkSize == 3     \* largest small chunk_size
MaxLongLen == 121     \* longest list chunked by max_ids_per_request

ChunkInputs ==
    {[data_list |-> s, chunk_size |-> k, state |-> "args", out |-> <<>>] :
        s \in SeqsUpTo({1, 2}, MaxListLen),
        k \in (0..MaxChunkSize) \cup {max_ids_per_request}}
    \cup
    {[data_list |-> [i \in 1..n |-> i], chunk_size |-> max_ids_per_request,
      state |-> "args", out |-> <<>>] : n \in 0..MaxLongLen}

\* range(0, len(data_list), 0) raises ValueError; otherwise the chunks are yielded
chunk_list_call ==
    /\ cl # PyNone
    /\ cl.state = "args"
    /\ cl' = IF cl.chunk_size = 0
             THEN [cl EXCEPT !.state = "ValueError"]
             ELSE [cl EXCEPT !.state = "yielded",
                             !.out = chunk_list(cl.data_list, cl.chunk_size)]
    /\ UNCHANGED <<authVars, dataVars, rso>>

InitChunks ==
    /\ DataIdle
    /\ ReplIdle
    /\ uri_name_table = Unbound
    /\ disk = [p \in Paths |-> NoFile]
    /\ last = NoCall
    /\ logged_in = FALSE
    /\ cl \in ChunkInputs

NextChunks == chunk_list_call

SpecChunks == InitChunks /\ [][NextChunks]_vars

(***************************************************************************)
(* replicate_scientific_objects.py                                         *)
(*                                                                         *)
(* A str is held as the sequence of its pieces: "_" is the underscore      *)
(* character and every other piece is a run of characters without "_".     *)
(***************************************************************************)
MaxReplRows == 3      \* most rows of a df handed to replicate_scientific_objects
MaxReplCols == 2      \* most columns of it besides URI and Name

Missing == [t |-> "NaN"]                 \* a float NaN cell
NaN_group == <<"NaN", "_", "group">>     \* the literal 'NaN_group'

\* str(value), as applymap(str) converts a cell
py_str(value) == IF value = Missing THEN <<"nan">> ELSE value.v

RECURSIVE join(_)
\* '_'.join(parts)
join(parts) ==
    IF parts = <<>> THEN <<>>
    ELSE IF Len(parts) = 1 THEN parts[1]
    ELSE parts[1] \o <<"_">> \o join(Tail(parts))

RECURSIVE split(_)
\* s.split('_')
split(s) ==
    IF \A k \in DOMAIN s : s[k] # "_" THEN <<s>>
    ELSE LET i == CHOOSE k \in DOMAIN s : s[k] = "_" /\ \A j \in 1..(k - 1) : s[j] # "_"
         IN  <<SubSeq(s, 1, i - 1)>> \o split(SubSeq(s, i + 1, Len(s)))

RECURSIVE pop_nans(_)
\* while parts and parts[-1] == 'nan': parts.pop()
pop_nans(parts) ==
    IF parts # <<>> /\ parts[Len(parts)] = <<"nan">>
    THEN pop_nans(SubSeq(parts, 1, Len(parts) - 1))
    ELSE parts

remove_trailing_nans_from_identifier(group_identifier) ==
    join(pop_nans(split(group_identifier)))

\* df[col].nunique(dropna=False)
nunique(df, col) == Cardinality({df.rows[i][col] : i \in DOMAIN df.rows})

columns_to_compare(df) ==
    SelectSeq(df.columns, LAMBDA col : col \notin {"URI", "Name"} /\ nunique(df, col) > 1)

\* the group_identifier of row i after lines 56-66
group_identifier(df, cols, i) ==
    LET joined == join([j \in DOMAIN cols |-> py_str(df.rows[i][cols[j]])])
        cleaned == remove_trailing_nans_from_identifier(joined)
    IN  IF cleaned # <<>> THEN cleaned ELSE NaN_group

\* code point order of the first characters of the pieces
PieceRank(p) ==
    CASE p = "NaN" -> 1 [] p = "_" -> 2 [] p = "a" -> 3 [] p = "b" -> 4
      [] p = "group" -> 5 [] p = "nan" -> 6

RECURSIVE str_less(_, _)
\* s < t on str
str_less(s, t) ==
    IF s = <<>> THEN t # <<>>
    ELSE IF t = <<>> THEN FALSE
    ELSE IF s[1] = t[1] THEN str_less(Tail(s), Tail(t))
    ELSE PieceRank(s[1]) < PieceRank(t[1])

RECURSIVE sorted(_)
\* the group keys in the order groupby yields them
sorted(S) ==
    IF S = {} THEN <<>>
    ELSE LET m == CHOOSE x \in S : \A y \in S \ {x} : str_less(x, y)
         IN  <<m>> \o sorted(S \ {m})

\* the summary file written by lines 88-92
summary_csv(group_summary) ==
    [exists |-> TRUE, header |-> <<"Group", "Number of Elements">>, lines |-> group_summary]

\* replicate_scientific_objects when lines 56-66 go through: the dictionary
\* returned, the caller's df as the call leaves it, and the file written
replicate_result(df, csv_filepath) ==
    LET cols == columns_to_compare(df)
        idx == [i \in DOMAIN df.rows |-> i]
        as_str == [i \in DOMAIN df.rows |->
                      [c \in DOMAIN df.rows[i] |->
                          IF c \in Range(cols) THEN Str(py_str(df.rows[i][c]))
                          ELSE df.rows[i][c]]]
        ident == [i \in DOMAIN df.rows |-> group_identifier(df, cols, i)]
        keys == sorted(Range(ident))
        members(g) == SelectSeq(idx, LAMBDA i : ident[i] = g)
        group_dict == [g \in Range(ident) |->
                          [columns |-> df.columns, index |-> members(g),
                           rows |-> [k \in DOMAIN members(g) |-> as_str[members(g)[k]]]]]
        group_summary == [k \in DOMAIN keys |-> <<keys[k], Len(members(keys[k]))>>]
    IN  [out |-> "return",
         group_dict |-> group_dict,
         df_after |-> [columns |-> Append(df.columns, "group_identifier"),
                       rows |-> [i \in DOMAIN df.rows |->
                                    [c \in DOMAIN df.rows[i] \cup {"group_identifier"} |->
                                        IF c = "group_identifier" THEN Str(ident[i])
                                        ELSE as_str[i][c]]]],
         csv_file |-> IF csv_filepath # "" THEN summary_csv(group_summary) ELSE NoFile]

\* With no column to compare, line 56 aggregates a frame without columns; what
\* pandas yields for it differs between versions: a float NaN per row, on which
\* line 59 raises AttributeError (group_identifier then already assigned), an
\* error at line 56 itself, or the empty string per row.
replicate_outcomes(df, csv_filepath) ==
    {replicate_result(df, csv_filepath)}
    \cup IF columns_to_compare(df) # <<>> THEN {}
         ELSE {[out |-> "raise", df_after |-> df, csv_file |-> NoFile],
               [out |-> "raise",
                df_after |-> [columns |-> Append(df.columns, "group_identifier"),
                              rows |-> [i \in DOMAIN df.rows |->
                                  [c \in DOMAIN df.rows[i] \cup {"group_identifier"} |->
                                      IF c = "group_identifier" THEN Missing
                                      ELSE df.rows[i][c]]]],
                csv_file |-> NoFile]}

ObjectURIs == <<"so1", "so2", "so3", "so4", "so5">>
FactorColumns == <<"c1", "c2", "c3", "c4">>
ReplValues == {Missing, Str(<<"a">>), Str(<<"b">>), Str(<<"a", "_", "a">>)}

\* a df of n scientific objects with k columns besides URI and Name
ReplFrame(n, k, cell) ==
    [columns |-> <<"URI", "Name">> \o SubSeq(FactorColumns, 1, k),
     rows |-> [i \in 1..n |->
                  [c \in {"URI", "Name"} \cup {FactorColumns[j] : j \in 1..k} |->
                      IF c \in {"URI", "Name"} THEN Str(<<ObjectURIs[i]>>)
                      ELSE cell[i][CHOOSE j \in 1..k : FactorColumns[j] = c]]]]

ReplInputs ==
    UNION {{ReplFrame(n, k, cell) : cell \in [1..n -> [1..k -> ReplValues]]} :
              n \in 1..MaxReplRows, k \in 0..MaxReplCols}

replicate_scientific_objects ==
    /\ rso # PyNone
    /\ rso.state = "args"
    /\ \E r \in replicate_outcomes(rso.df, rso.csv_filepath) :
          rso' = [state |-> "done", df |-> rso.df, csv_filepath |-> rso.csv_filepath] @@ r
    /\ UNCHANGED <<authVars, dataVars, cl>>

InitRepl ==
    /\ DataIdle
    /\ ChunkIdle
    /\ uri_name_table = Unbound
    /\ disk = [p \in Paths |-> NoFile]
    /\ last = NoCall
    /\ logged_in = FALSE
    /\ \E df \in ReplInputs, csv_filepath \in {"", "summary.csv"} :
          rso = [state |-> "args", df |-> df, csv_filepath |-> csv_filepath]

NextRepl == replicate_scientific_objects

SpecRepl == InitRepl /\ [][NextRepl]_vars

(***************************************************************************)
(* Claims about get_data_by_os_uri_variable and chunk_list                 *)
(***************************************************************************)
Futures == DOMAIN future_to_chunk
Failed(c) == future_to_chunk[c].state = "done" /\ future_to_chunk[c].exc # "none"
Succeeded(c) == future_to_chunk[c].state = "done" /\ future_to_chunk[c].exc = "none"

\* C3: when the request of any chunk fails (a status other than 200, or a
\* request exception), the call ends by raising APIRequestError to its caller
\* and returns no result built from the other chunks.
C3_ChunkFailurePropagates ==
    (pc = "done" /\ \E c \in Futures : Failed(c))
        => (ret.kind = "raise" /\ ret.exc = "APIRequestError")

\* no item was retrieved, or none of the retrieved items is of a listed variable
NoDataFound ==
    \/ all_results = <<>>
    \/ /\ ~IsEmptyDF(ls_var_exp)
       /\ \A i \in DOMAIN all_results :
             all_results[i].variable \notin {ls_var_exp.rows[j].URI : j \in DOMAIN ls_var_exp.rows}
       /\ \E j \in DOMAIN ls_var_exp.rows : ls_var_exp.rows[j].URI # NaNVar

\* C4: whenever the call returns, it returns a dictionary, and the empty
\* dictionary when no data was found.
C4_AlwaysReturnsDict ==
    (pc = "done" /\ ret.kind \notin {"raise", "exit"})
        => /\ ret.kind = "dict"
           /\ NoDataFound => ret.frames = EmptyDict

SeqToBag(s) == [x \in Range(s) |-> Cardinality({i \in DOMAIN s : s[i] = x})]

RECURSIVE ReturnedItems(_)
\* the items the requests of chunks 1..k returned, as a bag
ReturnedItems(k) ==
    IF k = 0 THEN EmptyBag
    ELSE ReturnedItems(k - 1) (+) SeqToBag(future_to_chunk[k].data)

\* C5: when every chunk request succeeded, the merged list that reaches the
\* export step holds, as a multiset, exactly the items the chunk requests
\* returned, whatever the order in which the workers finished.
C5_MergedListIsUnion ==
    (pc \in {"finish", "done"} /\ chunks # <<>> /\ \A c \in Futures : Succeeded(c))
        => SeqToBag(all_results) = ReturnedItems(Len(future_to_chunk))

\* three chunks all answered with items, the last chunk's item merged first
C5_Witness ==
    /\ pc = "finish"
    /\ Len(chunks) = 3
    /\ \A c \in Futures : Succeeded(c) /\ future_to_chunk[c].data # <<>>
    /\ Len(all_results) >= 3
    /\ all_results[1].target = chunks[3][1]

\* C6: no chunk is ever POSTed twice, and when the call has ended every chunk
\* has been POSTed exactly once, failed or not, and every URI of df_os lies in
\* exactly one chunk.
C6_OnePostPerChunk ==
    /\ \A c \in DOMAIN posts : posts[c] <= 1
    /\ (pc = "done" /\ chunks # <<>>)
          => /\ \A c \in DOMAIN chunks : posts[c] = 1
             /\ \A i \in 1..args.df_os.n :
                   args.df_os.URI[i] # NaN
                     => Cardinality({c \in DOMAIN chunks :
                                       args.df_os.URI[i] \in Range(chunks[c])}) = 1

\* a finished call of three chunks, one of which failed
C6_Witness ==
    /\ pc = "done"
    /\ Len(chunks) = 3
    /\ \E c \in Futures : Failed(c)
    /\ \E c \in Futures : Succeeded(c)
    /\ \A c \in DOMAIN posts : posts[c] = 1

\* C7: at most 5 chunk requests are in flight at any moment, however many
\* chunks were submitted.
C7_AtMostFiveInFlight == Cardinality(InFlight) <= 5

\* five requests in flight while submitted chunks still wait for a worker
C7_Witness ==
    /\ Cardinality(InFlight) = 5
    /\ Len(future_to_chunk) > 5
    /\ \E c \in Futures : future_to_chunk[c].state = "pending"

RECURSIVE Concat(_)
Concat(ss) == IF ss = <<>> THEN <<>> ELSE Head(ss) \o Concat(Tail(ss))

\* C8: for chunk_size >= 1 the sub-lists yielded concatenate to data_list, none
\* is empty, all but the last hold chunk_size elements and the last at most
\* chunk_size; the empty list yields nothing; with chunk_size 40 there are
\* ceil(n/40) chunks.
C8_ChunkList ==
    (cl # PyNone /\ cl.state = "yielded" /\ cl.chunk_size >= 1)
        => /\ Concat(cl.out) = cl.data_list
           /\ \A i \in DOMAIN cl.out :
                 /\ Len(cl.out[i]) >= 1
                 /\ Len(cl.out[i]) <= cl.chunk_size
                 /\ i < Len(cl.out) => Len(cl.out[i]) = cl.chunk_size
           /\ cl.data_list = <<>> => cl.out = <<>>
           /\ cl.chunk_size = 40 => Len(cl.out) = (Len(cl.data_list) + 39) \div 40

\* 81 elements chunked by 40: two full chunks and a last chunk of one
C8_Witness ==
    /\ cl # PyNone
    /\ cl.state = "yielded"
    /\ cl.chunk_size = 40
    /\ Len(cl.data_list) = 81
    /\ Len(cl.out) = 3
    /\ Len(cl.out[3]) = 1

(***************************************************************************)
(* Claims about login and the URI-Name table, checked under Spec           *)
(***************************************************************************)
SessionKeys == {"token", "url_rest", "url_graphql", "headers_graphql", "headers_rest"}

\* C1: when the authentication POST answers 2xx, login returns a session with
\* the five documented keys and the URI-Name table is bound to a DataFrame;
\* once a login has returned, the table stays initialised, so a later
\* insert_into_uri_name or getURIbyName never fails for want of a table.
C1_LoginInitialisesTable ==
    /\ (last.op = "login" /\ last.posted /\ last.answered /\ last.status \in 200..299)
          => /\ last.out = "return"
             /\ DOMAIN last.session = SessionKeys
             /\ uri_name_table.state = "df"
    /\ logged_in
          => /\ uri_name_table.state = "df"
             /\ (last.op \in {"insert_into_uri_name", "getURIbyName"})
                   => ~(last.out = "NameError"
                        \/ (last.out = "ValueError" /\ "msg" \in DOMAIN last
                              /\ last.msg = "not initialized"))

\* a call of getURIbyName made after a successful login found its row
C1_Witness ==
    /\ logged_in
    /\ last.op = "getURIbyName"
    /\ last.out = "return"

\* the rows of the table whose Name is name
RowsNamed(tbl, name) == {i \in DOMAIN tbl.rows : tbl.rows[i].Name = name}

C9_LoginFailureLeavesTable ==
    [][(last'.op = "login" /\ last'.posted /\ last'.answered /\ last'.status \notin 200..299) =>
         /\ last'.out = "AuthenticationError"
         /\ "session" \notin DOMAIN last'
         /\ uri_name_table' = uri_name_table
         /\ disk' = disk
      ]_authVars

\* a refused login while no table and no uri_name.csv exist
C9_Witness ==
    /\ last.op = "login"
    /\ last.out = "AuthenticationError"
    /\ last.answered
    /\ last.status = 401
    /\ uri_name_table = Unbound
    /\ ~disk[DefaultCsv].exists

\* C10: a network failure of the authentication request reaches the caller of
\* login as requests.exceptions.RequestException.
C10_NetworkErrorIsRequestException ==
    (last.op = "login" /\ last.posted /\ ~last.answered) => last.out = "RequestException"

\* C11: when any of username, password, instance_rest or url_graphql is empty
\* or None, login raises ValueError, sends no HTTP request, and leaves the
\* URI-Name table and the CSV files as they were.
C11_LoginValidatesFirst ==
    [][(last'.op = "login" /\ last'.empty_arg) =>
         /\ last'.out = "ValueError"
         /\ ~last'.posted
         /\ uri_name_table' = uri_name_table
         /\ disk' = disk
      ]_authVars

\* a login with a missing argument, refused while no table exists
C11_Witness ==
    /\ last.op = "login"
    /\ last.empty_arg
    /\ last.out = "ValueError"
    /\ ~last.posted
    /\ uri_name_table = Unbound

\* the four functions that test the table before using it
TableUsers ==
    {"insert_into_uri_name", "check_uri_name_consistency", "getURIbyName", "getNamesByURI"}

\* C12: while the URI-Name table has never been initialized, each of
\* insert_into_uri_name, check_uri_name_consistency, getURIbyName and
\* getNamesByURI raises ValueError.
C12_UninitialisedRaisesValueError ==
    (uri_name_table = Unbound /\ last.op \in TableUsers) => last.out = "ValueError"

\* C13: insert_into_uri_name called with an argument that is not a DataFrame,
\* or with a DataFrame lacking the URI or the Name column, raises ValueError
\* and leaves the global table exactly as it was.
C13_InvalidInsertRaisesValueError ==
    [][(last'.op = "insert_into_uri_name" /\ ~last'.valid) =>
         /\ last'.out = "ValueError"
         /\ uri_name_table' = uri_name_table
      ]_authVars

\* C14: init_uri_name loads the file at csv_path when csv_path is given and
\* exists, otherwise uri_name.csv when that exists, otherwise binds an empty
\* table; with save=True the table is then written to csv_path when given,
\* else to uri_name.csv, and with save=False no file is written.
C14_InitSourcePriority ==
    [][last'.op = "init_uri_name" =>
         LET given == last'.csv_path # ""
             target == IF given THEN last'.csv_path ELSE DefaultCsv
         IN  /\ (given /\ disk[last'.csv_path].exists)
                   => uri_name_table' = DF(read_csv(disk[last'.csv_path]))
             /\ (~(given /\ disk[last'.csv_path].exists) /\ disk[DefaultCsv].exists)
                   => uri_name_table' = DF(read_csv(disk[DefaultCsv]))
             /\ (~(given /\ disk[last'.csv_path].exists) /\ ~disk[DefaultCsv].exists)
                   => uri_name_table' = DF(<<>>)
             /\ last'.save
                   => /\ disk'[target] = to_csv(uri_name_table'.rows)
                      /\ \A p \in Paths \ {target} : disk'[p] = disk[p]
             /\ ~last'.save => disk' = disk
      ]_authVars

\* init_uri_name(csv_path, save=True) took the file at csv_path although a
\* uri_name.csv with other content exists
C14_Witness ==
    /\ last.op = "init_uri_name"
    /\ last.csv_path = OtherCsv
    /\ last.save
    /\ uri_name_table = DF(<<Row("u2", "n2")>>)
    /\ disk[OtherCsv] = to_csv(<<Row("u2", "n2")>>)
    /\ disk[DefaultCsv].exists
    /\ disk[DefaultCsv] # disk[OtherCsv]

\* no two rows of the table carry the same (URI, Name) pair
NoDuplicatePairs(tbl) ==
    \A i, j \in DOMAIN tbl.rows :
        (tbl.rows[i].URI = tbl.rows[j].URI /\ tbl.rows[i].Name = tbl.rows[j].Name) => i = j

\* C16: an insert_into_uri_name call on a table in which no two rows have the
\* same (URI, Name) pair leaves a table in which no two rows have the same
\* pair, whatever new_data repeats; hence so does any sequence of such calls.
C16_InsertKeepsPairsUnique ==
    [][(last'.op = "insert_into_uri_name"
          /\ uri_name_table.state = "df" /\ NoDuplicatePairs(uri_name_table)) =>
         (uri_name_table'.state = "df" /\ NoDuplicatePairs(uri_name_table'))
      ]_authVars

\* an insert whose new_data repeated a pair has grown a duplicate-free table
C16_Witness ==
    /\ last.op = "insert_into_uri_name"
    /\ last.out = "return"
    /\ last.repeats
    /\ Len(uri_name_table.rows) = 4
    /\ NoDuplicatePairs(uri_name_table)

\* a step of a worker thread: the future of a queued or running chunk changes
WorkerStep ==
    \E c \in DOMAIN future_to_chunk \cap DOMAIN future_to_chunk' :
        /\ future_to_chunk[c].state \in {"pending", "running"}
        /\ future_to_chunk'[c] # future_to_chunk[c]

\* C17: the merged list all_results is written only by the collecting thread
\* at line 147 while it holds all_results_lock; a worker thread running
\* fetch_chunk_data leaves it alone; and it is read for the export only after
\* every submitted chunk has completed and been collected.
C17_SharedListSingleWriter ==
    [][/\ all_results' # all_results =>
             (pc = "extend" /\ all_results_lock = "main" /\ all_results_lock' = "main"
                /\ ~WorkerStep)
       /\ WorkerStep => all_results' = all_results
       /\ (pc = "finish" /\ pc' = "done") =>
             /\ \A c \in DOMAIN future_to_chunk : future_to_chunk[c].state = "done"
             /\ collected = DOMAIN future_to_chunk
             /\ all_results_lock = "free"
      ]_vars

\* the collecting thread has just extended the list under the lock while a
\* worker is still fetching another chunk
C17_Witness ==
    /\ pc = "release"
    /\ all_results_lock = "main"
    /\ all_results # <<>>
    /\ \E c \in DOMAIN future_to_chunk : future_to_chunk[c].state = "running"

\* the rows of group g of the returned dictionary, by their index in df
GroupRows(g) == Range(rso.group_dict[g].index)

RECURSIVE GroupSizesSum(_)
GroupSizesSum(S) ==
    IF S = {} THEN 0
    ELSE LET g == CHOOSE x \in S : TRUE
         IN  Len(rso.group_dict[g].index) + GroupSizesSum(S \ {g})

\* C15: the groups returned by replicate_scientific_objects partition the
\* rows of df (every row is in exactly one group, the group sizes sum to the
\* number of rows), and two rows are in the same group if and only if they
\* have equal values in every column other than URI and Name that takes more
\* than one distinct value.
C15_GroupsAreIdentityClasses ==
    (rso # PyNone /\ rso.state = "done" /\ rso.out = "return") =>
        LET df == rso.df
            groups == DOMAIN rso.group_dict
            compared == {c \in Range(df.columns) \ {"URI", "Name"} :
                            Cardinality({df.rows[i][c] : i \in DOMAIN df.rows}) > 1}
        IN  /\ \A i \in DOMAIN df.rows : Cardinality({g \in groups : i \in GroupRows(g)}) = 1
            /\ GroupSizesSum(groups) = Len(df.rows)
            /\ \A i, j \in DOMAIN df.rows :
                  (\E g \in groups : {i, j} \subseteq GroupRows(g))
                     <=> (\A c \in compared : df.rows[i][c] = df.rows[j][c])

====
